---- MODULE Spec2Model ----
(***************************************************************************)
(* Model of scripts/update-ledger.mjs: the ledger reconciliation run       *)
(* (main), the retrying fetch layer (fetchWithRetry), the tariff lookup    *)
(* (selectRates) and the month calculation (calculateMonth).               *)
(*                                                                         *)
(* Encodings                                                               *)
(*   null / undefined      None == << >>, a present value v is <<v>>       *)
(*   month key "YYYY-MM"   the pair <<year, month>>; string order of the   *)
(*                         zero-padded keys is the lexicographic order of  *)
(*                         the pairs (KeyLeq)                              *)
(*   error message         a sequence of string fragments (concatenation   *)
(*                         of a template literal is \o)                    *)
(*   money (kr)            integer hundredths of a krona                   *)
(*   prices (ore)          integers                                        *)
(*   energy (kWh)          integer tenths of a kWh                         *)
(***************************************************************************)
EXTENDS Integers, Sequences, FiniteSets, TLC

VARIABLES
    disk,           \* the two output files: [data |-> ledger, docs |-> <<>> or <<ledger>>]
    clock,          \* the UTC (year, month) of the system clock
    pc,             \* position of the process in main (or of a function harness)
    env,            \* process.env: EASEE_TOKEN, EASEE_USERNAME, EASEE_PASSWORD
    ledger,         \* main: the in-memory ledger object
    monthList,      \* main: listMonths(startKey, endKey)
    jamtkraftData,  \* main: the tariff table fetched
    meUsage,        \* main: usage series of the primary identity
    neighborUsage,  \* main: usage series of the secondary identity
    token,          \* main: the token in use
    lastError,      \* main: lastError
    lastRunStatus,  \* main: lastRunStatus
    payload,        \* main: the serialized snapshot
    fpc,            \* fetchWithRetry: position
    fcall,          \* fetchWithRetry: url and policy of the call
    attempt,        \* fetchWithRetry: loop counter
    fetchLastError, \* fetchWithRetry: lastError
    fres,           \* fetchWithRetry: value returned or error thrown
    flog,           \* history: requests and waits of the current call
    netLast,        \* history: how the most recent request ended
    loaded,         \* history: the ledger as read at the start of the run
    issued,         \* history: fetch-phase steps of this run, with outcome
    phases,         \* history: lifecycle states this run went through
    insecureSent,   \* history: urls that got a request without validation
    writes,         \* history: write attempts of this run, with outcome
    caught,         \* history: the error the catch block of main caught
    arg,            \* function harness: inputs
    ret             \* function harness: outputs

vars == << disk, clock, pc, env, ledger, monthList, jamtkraftData, meUsage,
           neighborUsage, token, lastError, lastRunStatus, payload, fpc, fcall,
           attempt, fetchLastError, fres, flog, netLast, loaded, issued,
           phases, insecureSent, writes, caught, arg, ret >>

mainVars == << disk, clock, pc, env, ledger, monthList, jamtkraftData, meUsage,
               neighborUsage, token, lastError, lastRunStatus, payload,
               loaded, issued, phases, writes, caught >>

fetchVars == << fpc, fcall, attempt, fetchLastError, fres, flog, netLast,
                insecureSent >>

----------------------------------------------------------------------------
(* Bounds of the model *)

\* retries ranges over 1..MaxRetries when fetchWithRetry is checked on its own
MaxRetries == 3
\* the clock ranges over the epoch month and the MaxElapsed months after it
MaxElapsed == 2
\* tariff row lists have 1..MaxRows rows when selectRates is checked on its own
MaxRows == 3

----------------------------------------------------------------------------
(* Values *)

None == << >>
Some(v) == << v >>
Get(o) == o[1]

Last(s) == s[Len(s)]

Contains(s, x) == \E i \in 1..Len(s) : s[i] = x

----------------------------------------------------------------------------
(* Month keys *)

toMonthKey(year, month) == << year, month >>

parseMonthKey(monthKey) == [year |-> monthKey[1], month |-> monthKey[2]]

\* a <= b on "YYYY-MM" strings
KeyLeq(a, b) == a[1] < b[1] \/ (a[1] = b[1] /\ a[2] <= b[2])

\* the current month taken as the last closed one
getLastClosedMonthCurrent(now) == [year |-> now[1], month |-> now[2]]

getLastClosedMonth(now) ==
    LET year == now[1]
        month == now[2]
    IN IF month = 1 THEN [year |-> year - 1, month |-> 12]
       ELSE [year |-> year, month |-> month - 1]

RECURSIVE listMonthsFrom(_, _, _)
listMonthsFrom(year, month, end) ==
    IF year < end.year \/ (year = end.year /\ month <= end.month)
    THEN << [year |-> year, month |-> month] >>
         \o (IF month + 1 = 13 THEN listMonthsFrom(year + 1, 1, end)
             ELSE listMonthsFrom(year, month + 1, end))
    ELSE << >>

listMonths(startKey, endKey) ==
    LET start == parseMonthKey(startKey)
        end == parseMonthKey(endKey)
    IN listMonthsFrom(start.year, start.month, end)

startKey == << 2024, 1 >>

\* monthList of a run started at `now` (lines 427-430)
monthListAt(now) ==
    LET lastClosed == getLastClosedMonth(now)
        endKey == toMonthKey(lastClosed.year, lastClosed.month)
    IN listMonths(startKey, endKey)

----------------------------------------------------------------------------
(* round2: half-up rounding of the krona amount num/den to hundredths *)

\* the amount cut off after the hundredths
round2Truncate(num, den) == (100 * num) \div den

\* the amount rounded up to the next hundredth
round2Up(num, den) == (100 * num + den - 1) \div den

round2(num, den) == (200 * num + den) \div (2 * den)

----------------------------------------------------------------------------
(* Errors.  An Error object is [message, cause]; cause is None or Some of  *)
(* the underlying object.  A transport failure of fetch() is a TypeError   *)
(* "fetch failed" whose cause (and possibly whose cause's cause) carries   *)
(* the system error code.                                                  *)

IssuerCode == "UNABLE_TO_GET_ISSUER_CERT_LOCALLY"

TransportError(code1, code2) ==
    [message |-> << "fetch failed" >>,
     cause |-> Some([code |-> code1,
                     cause |-> IF code2 = None THEN None
                               ELSE Some([code |-> code2])])]

\* the failures the network produces in this model
NetErrors ==
    { TransportError(Some("ECONNRESET"), None),
      TransportError(Some("ETIMEDOUT"), None),
      TransportError(Some(IssuerCode), None),
      TransportError(None, Some(IssuerCode)) }

\* new Error(message): no cause
PlainError(message) == [message |-> message, cause |-> None]

\* error?.cause, then primaryCause?.code ?? primaryCause?.cause?.code
tlsCode(error) ==
    IF error.cause = None THEN None
    ELSE LET primaryCause == Get(error.cause)
         IN IF primaryCause.code # None THEN primaryCause.code
            ELSE IF primaryCause.cause = None THEN None
            ELSE Get(primaryCause.cause).code

shouldFallbackNoFlag(allowInsecureTls, error) == tlsCode(error) = Some(IssuerCode)

shouldFallback(allowInsecureTls, error) ==
    allowInsecureTls /\ tlsCode(error) = Some(IssuerCode)

\* the error thrown once the loop is exhausted
LabeledError(label, err) ==
    [message |-> label \o << " failed: " >> \o err.message, cause |-> Some(err)]

\* text.includes(part), on fragment sequences
IsInfix(part, text) ==
    \E i \in 0..(Len(text) - Len(part)) :
        \A j \in 1..Len(part) : text[i + j] = part[j]

----------------------------------------------------------------------------
(* The upstream services.  A url is [endpoint, siteId, userId]; a response *)
(* is [ok, status, body].                                                  *)

JAMTKRAFT_URL == [endpoint |-> "jamtkraft/prishistorik", siteId |-> None, userId |-> None]

LoginUrl == [endpoint |-> "api/accounts/login", siteId |-> None, userId |-> None]

SiteUsersUrl(siteId) ==
    [endpoint |-> "api/sites/users", siteId |-> Some(siteId), userId |-> None]

MonthlyUrl(siteId, userId) ==
    [endpoint |-> "api/sites/users/monthly", siteId |-> Some(siteId),
     userId |-> Some(userId)]

Response(ok, status, body) == [ok |-> ok, status |-> status, body |-> body]

\* A year row of a matched table, as a strategy reads it: the year cell
\* (None when Number() of it is not finite) and, per data cell, the month
\* its header maps to (None when unrecognized) and its numeric value (None
\* when not finite).
RawRow(year, cells) == [year |-> year, cells |-> cells]

Cell(month, value) == [month |-> month, value |-> value]

\* An HTML document, by what each strategy finds in it: None when the
\* strategy finds no matching table, else the rows of the table it matches.
Doc(nextData, table, text) == [nextData |-> nextData, table |-> table, text |-> text]

TariffDocs ==
    { Doc(None, None, None),
      Doc(Some(<< RawRow(Some(2024), << Cell(Some(1), Some(100)),
                                        Cell(Some(2), None) >>) >>), None, None),
      Doc(None, Some(<< RawRow(Some(2024), << Cell(Some(1), None) >>) >>),
          Some(<< RawRow(Some(2024), [i \in 1..12 |-> Cell(Some(i), Some(90))]) >>)) }

\* bodies of the login endpoint: data.accessToken present or not
LoginBodies == { [accessToken |-> Some("login-token")], [accessToken |-> None] }

\* A user entry of the site-users listing: its typeof, Number() of it when
\* it is a number or a string (None when not finite), and for an object the
\* fields userId, userID, id and user.id (None when absent).
UserEntry(type, num, userId, userID, id, userDotId) ==
    [type |-> type, num |-> num, userId |-> userId, userID |-> userID,
     id |-> id, userDotId |-> userDotId]

NumberUser(n) == UserEntry("number", Some(n), None, None, None, None)

ObjectUser(n) == UserEntry("object", None, Some(n), None, None, None)

\* bodies of the site-users endpoint: the JSON shape and the list it carries
SiteUsersBody(shape, list) == [shape |-> shape, list |-> list]

SiteUsersBodies ==
    { SiteUsersBody("array", << NumberUser(11), NumberUser(22) >>),
      SiteUsersBody("users", << ObjectUser(11), ObjectUser(33) >>),
      SiteUsersBody("array", << >>) }

\* entries of the monthly usage endpoint; year 0 / month 0 stand for a
\* missing (falsy) field
UsageEntry(year, month, totalEnergyUsage) ==
    [year |-> year, month |-> month, totalEnergyUsage |-> totalEnergyUsage]

UsageBodies ==
    { << >>,
      << UsageEntry(2024, 1, Some(105)), UsageEntry(2024, 0, Some(7)) >> }

Responses(url) ==
    CASE url.endpoint = "jamtkraft/prishistorik" ->
            { Response(TRUE, 200, d) : d \in TariffDocs }
            \cup { Response(FALSE, 503, Doc(None, None, None)) }
      [] url.endpoint = "api/accounts/login" ->
            { Response(TRUE, 200, b) : b \in LoginBodies }
            \cup { Response(FALSE, 401, [accessToken |-> None]) }
      [] url.endpoint = "api/sites/users" ->
            { Response(TRUE, 200, b) : b \in SiteUsersBodies }
            \cup { Response(FALSE, 403, SiteUsersBody("array", << >>)) }
      [] OTHER ->
            { Response(TRUE, 200, b) : b \in UsageBodies }
            \cup { Response(FALSE, 500, << >>) }

----------------------------------------------------------------------------
(* fetchWithRetry *)

Policy(retries, retryDelayMs, label, allowInsecureTls) ==
    [retries |-> retries, retryDelayMs |-> retryDelayMs, label |-> label,
     allowInsecureTls |-> allowInsecureTls]

DefaultRetries == 3
DefaultRetryDelayMs == 1000

\* { retries = 3, retryDelayMs = 1000, label = "Fetch", allowInsecureTls = false }
DefaultPolicy(label) == Policy(DefaultRetries, DefaultRetryDelayMs, label, FALSE)

NoCall == [url |-> JAMTKRAFT_URL, policy |-> DefaultPolicy(<< "Fetch" >>)]

NoRes == [kind |-> "none", v |-> None]

\* history entries
Request(insecure, n) == [kind |-> "request", insecure |-> insecure, attempt |-> n, ms |-> 0]

Waited(ms, n) == [kind |-> "wait", insecure |-> FALSE, attempt |-> n, ms |-> ms]

\* lastError = error (line 70)
CatchAssignFirst(prev, error) == IF prev = None THEN Some(error) ELSE prev

CatchAssign(prev, error) == Some(error)

\* retryDelayMs * attempt (line 78)
BackoffFlat(retryDelayMs, n) == retryDelayMs

Backoff(retryDelayMs, n) == retryDelayMs * n

\* attempt < retries (line 77)
RetryLeft(n, retries) == n < retries

\* the call, up to the first request being issued (lines 60-68)
fetchWithRetryCall(url, policy) ==
    /\ fcall' = [url |-> url, policy |-> policy]
    /\ attempt' = 1
    /\ fetchLastError' = None
    /\ fres' = NoRes
    /\ flog' = << Request(FALSE, 1) >>
    /\ fpc' = "fetch"

\* the pending request resolves: return await fetch(url, options) (line 68)
FetchResolve ==
    /\ fpc = "fetch"
    /\ \E r \in Responses(fcall.url) :
          /\ netLast' = [kind |-> "response", v |-> r]
          /\ fres' = [kind |-> "response", v |-> r]
    /\ fpc' = "returned"
    /\ UNCHANGED << fcall, attempt, fetchLastError, flog, insecureSent >>

\* the pending request rejects: the catch block (lines 69-81), up to the
\* next await or to the throw after the loop (lines 83-85)
FetchReject ==
    /\ fpc = "fetch"
    /\ \E error \in NetErrors :
          LET last == CatchAssign(fetchLastError, error)
          IN /\ netLast' = [kind |-> "error", v |-> error]
             /\ fetchLastError' = last
             /\ IF shouldFallback(fcall.policy.allowInsecureTls, error)
                THEN /\ flog' = Append(flog, Request(TRUE, attempt))
                     /\ insecureSent' = insecureSent \cup { fcall.url }
                     /\ fpc' = "fallback"
                     /\ UNCHANGED << attempt, fres >>
                ELSE IF RetryLeft(attempt, fcall.policy.retries)
                THEN /\ flog' = Append(flog, Waited(Backoff(fcall.policy.retryDelayMs, attempt), attempt))
                     /\ fpc' = "wait"
                     /\ UNCHANGED << attempt, fres, insecureSent >>
                ELSE /\ fres' = [kind |-> "error",
                                 v |-> LabeledError(fcall.policy.label, Get(last))]
                     /\ fpc' = "thrown"
                     /\ UNCHANGED << attempt, flog, insecureSent >>
    /\ UNCHANGED fcall

\* the backoff timer fires: continue, attempt += 1, next request (lines 79, 66-68)
WaitDone ==
    /\ fpc = "wait"
    /\ attempt' = attempt + 1
    /\ flog' = Append(flog, Request(FALSE, attempt + 1))
    /\ fpc' = "fetch"
    /\ UNCHANGED << fcall, fetchLastError, fres, netLast, insecureSent >>

\* the request without certificate validation resolves (line 75)
FallbackResolve ==
    /\ fpc = "fallback"
    /\ \E r \in Responses(fcall.url) :
          /\ netLast' = [kind |-> "response", v |-> r]
          /\ fres' = [kind |-> "response", v |-> r]
    /\ fpc' = "returned"
    /\ UNCHANGED << fcall, attempt, fetchLastError, flog, insecureSent >>

\* the request without certificate validation rejects: its error leaves
\* fetchWithRetry as it is (line 75, inside the catch block)
FallbackReject ==
    /\ fpc = "fallback"
    /\ \E error \in NetErrors :
          /\ netLast' = [kind |-> "error", v |-> error]
          /\ fres' = [kind |-> "error", v |-> error]
    /\ fpc' = "thrown"
    /\ UNCHANGED << fcall, attempt, fetchLastError, flog, insecureSent >>

FetchStep ==
    \/ FetchResolve
    \/ FetchReject
    \/ WaitDone
    \/ FallbackResolve
    \/ FallbackReject

----------------------------------------------------------------------------
(* TariffExtractor: the three strategies of parseJamtkraft *)

\* monthValues of one row: monthValues[monthIndex] = numeric for every cell
\* whose header is recognized and whose value is finite
monthValuesOf(cells) ==
    LET good == { i \in 1..Len(cells) : cells[i].month # None /\ cells[i].value # None }
        months == { Get(cells[i].month) : i \in good }
    IN [m \in months |->
           LET i == CHOOSE i \in good :
                       /\ Get(cells[i].month) = m
                       /\ \A j \in good : Get(cells[j].month) = m => j <= i
           IN Get(cells[i].value)]

\* rows[year] = monthValues for every row whose year is finite
rowsOf(rawRows) ==
    LET good == { i \in 1..Len(rawRows) : rawRows[i].year # None }
        years == { Get(rawRows[i].year) : i \in good }
    IN [y \in years |->
           LET i == CHOOSE i \in good :
                       /\ Get(rawRows[i].year) = y
                       /\ \A j \in good : Get(rawRows[j].year) = y => j <= i
           IN monthValuesOf(rawRows[i].cells)]

\* Object.keys(rows).length ? rows : null
nonEmptyOrNull(rows) == IF DOMAIN rows = {} THEN None ELSE Some(rows)

parseNextData(doc) ==
    IF doc.nextData = None THEN None ELSE nonEmptyOrNull(rowsOf(Get(doc.nextData)))

parseTable(doc) ==
    IF doc.table = None THEN None ELSE nonEmptyOrNull(rowsOf(Get(doc.table)))

parseText(doc) ==
    IF doc.text = None THEN None ELSE nonEmptyOrNull(rowsOf(Get(doc.text)))

\* the chain with the free-text strategy before the rendered-table strategy
extractTextFirst(doc) ==
    IF parseNextData(doc) # None THEN parseNextData(doc)
    ELSE IF parseText(doc) # None THEN parseText(doc)
    ELSE parseTable(doc)

\* the strategies that parseNextData() ?? parseTable() ?? parseText() calls:
\* ?? evaluates its right operand only when the left one is null
strategiesTried(doc) ==
    << "parseNextData" >>
    \o (IF parseNextData(doc) # None THEN << >>
        ELSE << "parseTable" >>
             \o (IF parseTable(doc) # None THEN << >> ELSE << "parseText" >>))

\* parseNextData() ?? parseTable() ?? parseText()
extract(doc) ==
    IF parseNextData(doc) # None THEN parseNextData(doc)
    ELSE IF parseTable(doc) # None THEN parseTable(doc)
    ELSE parseText(doc)

\* results of the fetch-phase functions: a value returned or an error thrown
Ok(v) == [kind |-> "ok", v |-> v]
Err(e) == [kind |-> "error", v |-> e]

\* parseJamtkraft after its fetchWithRetry settled
parseJamtkraftResult(res) ==
    IF res.kind = "error" THEN Err(res.v)
    ELSE IF ~res.v.ok
    THEN Err(PlainError(<< "Jamtkraft request failed with ", ToString(res.v.status) >>))
    ELSE IF extract(res.v.body) = None
    THEN Err(PlainError(<< "Could not parse Jamtkraft Elomrade 2 data" >>))
    ELSE Ok(Get(extract(res.v.body)))

\* jamtkraftData?.[year]?.[month] ?? null
spotLookup(table, year, month) ==
    IF year \in DOMAIN table /\ month \in DOMAIN table[year]
    THEN Some(table[year][month]) ELSE None

----------------------------------------------------------------------------
(* UsageClient *)

loginEaseeResult(res) ==
    IF res.kind = "error" THEN Err(res.v)
    ELSE IF ~res.v.ok
    THEN Err(PlainError(<< "Easee login failed with ", ToString(res.v.status) >>))
    ELSE IF res.v.body.accessToken = None
    THEN Err(PlainError(<< "Easee login response missing accessToken" >>))
    ELSE Ok(res.v.body.accessToken)

fetchEaseeSiteUsersResult(res) ==
    IF res.kind = "error" THEN Err(res.v)
    ELSE IF ~res.v.ok
    THEN Err(PlainError(<< "Easee site users failed with ", ToString(res.v.status) >>))
    ELSE Ok(res.v.body)

\* the Map built from the entries that have a year and a month
usageMapOf(data) ==
    LET good == { i \in 1..Len(data) : data[i].year # 0 /\ data[i].month # 0 }
        keys == { toMonthKey(data[i].year, data[i].month) : i \in good }
    IN [k \in keys |->
           LET i == CHOOSE i \in good :
                       /\ toMonthKey(data[i].year, data[i].month) = k
                       /\ \A j \in good :
                            toMonthKey(data[j].year, data[j].month) = k => j <= i
           IN data[i].totalEnergyUsage]

fetchEaseeMonthlyUsageResult(res, userId) ==
    IF res.kind = "error" THEN Err(res.v)
    ELSE IF ~res.v.ok
    THEN Err(PlainError(<< "Easee API failed for ", ToString(userId), " with ",
                           ToString(res.v.status) >>))
    ELSE Ok(usageMapOf(res.v.body))

\* usage.get(monthKey) ?? null
usageLookup(usage, monthKey) ==
    IF monthKey \in DOMAIN usage THEN usage[monthKey] ELSE None

extractUserId(user) ==
    IF user.type = "number" THEN user.num
    ELSE IF user.type = "string" THEN user.num
    ELSE IF user.type # "object" THEN None
    ELSE IF user.userId # None THEN user.userId
    ELSE IF user.userID # None THEN user.userID
    ELSE IF user.id # None THEN user.id
    ELSE user.userDotId

\* Array.isArray(siteUsers) ? siteUsers : siteUsers?.users ?? siteUsers?.data ?? []
usersArrayOf(siteUsers) ==
    IF siteUsers.shape \in { "array", "users", "data" } THEN siteUsers.list ELSE << >>

RECURSIVE availableUserIdsOf(_)
\* usersArray.map(extractUserId).filter(Number.isFinite)
availableUserIdsOf(usersArray) ==
    IF usersArray = << >> THEN << >>
    ELSE LET id == extractUserId(usersArray[1])
         IN (IF id = None THEN << >> ELSE << Get(id) >>)
            \o availableUserIdsOf(Tail(usersArray))

\* the ids expected and not available (lines 456-463); << >> when the
\* check is skipped or passes
missingUserIds(identities, availableUserIds) ==
    IF availableUserIds = << >> THEN << >>
    ELSE LET expectedUserIds == << identities.meUserId, identities.neighborUserId >>
             absent(id) == ~Contains(availableUserIds, id)
         IN SelectSeq(expectedUserIds, absent)

idStrings(ids) == [i \in 1..Len(ids) |-> ToString(ids[i])]

identityError(identities, missing, availableUserIds) ==
    PlainError(<< "Easee userId(s) not found on site ", ToString(identities.siteId),
                  ". Missing: " >> \o idStrings(missing)
               \o << ". Available: " >> \o idStrings(availableUserIds))

----------------------------------------------------------------------------
(* RateTable *)

Rate(from, localDiscount, gridTransfer, energyTax, norrlandDeduction) ==
    [from |-> from,
     localDiscountOreInclVat |-> localDiscount,
     gridTransferOreInclVat |-> gridTransfer,
     energyTaxOreInclVat |-> energyTax,
     norrlandDeductionOreInclVat |-> norrlandDeduction]

\* r goes after every row whose from is <= r.from: the sort is stable
insertByFrom(sorted, r) ==
    LET before(x) == KeyLeq(x.from, r.from)
        after(x) == ~KeyLeq(x.from, r.from)
    IN SelectSeq(sorted, before) \o << r >> \o SelectSeq(sorted, after)

RECURSIVE sortByFrom(_)
\* [...rates].sort((a, b) => a.from.localeCompare(b.from))
sortByFrom(rates) ==
    IF rates = << >> THEN << >>
    ELSE insertByFrom(sortByFrom(SubSeq(rates, 1, Len(rates) - 1)), Last(rates))

\* selectRates without the sort
selectRatesUnsorted(rates, monthKey) ==
    LET applies(rate) == KeyLeq(rate.from, monthKey)
        matches == SelectSeq(rates, applies)
    IN [match |-> IF matches = << >> THEN rates[1] ELSE Last(matches),
        rates |-> rates]

\* match: the value returned; rates: the argument array after the call
selectRates(rates, monthKey) ==
    LET sorted == sortByFrom(rates)
        applies(rate) == KeyLeq(rate.from, monthKey)
        matches == SelectSeq(sorted, applies)
    IN [match |-> IF matches = << >> THEN sorted[1] ELSE Last(matches),
        rates |-> rates]

----------------------------------------------------------------------------
(* MonthCalculator *)

\* only the spot price gives a warning
missingWarningsSpotOnly(spotOreInclVat, meKWh, neighborKWh) ==
    IF spotOreInclVat = None THEN << "MissingJamtkraftPrice" >> ELSE << >>

\* the warnings array (lines 357-366)
missingWarnings(spotOreInclVat, meKWh, neighborKWh) ==
    (IF spotOreInclVat = None THEN << "MissingJamtkraftPrice" >> ELSE << >>)
    \o (IF meKWh = None THEN << "MissingEaseeUsageMe" >> ELSE << >>)
    \o (IF neighborKWh = None THEN << "MissingEaseeUsageNeighbor" >> ELSE << >>)

\* buildResult (lines 380-404), with the variables it closes over as
\* parameters.  kwh is in tenths of a kWh and prices in ore, so the krona
\* amount kwh * price / 100 is (kwh * price) / 1000.
buildResult(spotOreInclVat, adjustedElPriceOre, rates, kwh) ==
    IF spotOreInclVat = None \/ kwh = None
    THEN [adjustedElPriceOre |-> adjustedElPriceOre,
          elhandelKr |-> 0, elnatKr |-> 0, totalKr |-> 0]
    ELSE LET elhandelKr == round2(Get(kwh) * Get(adjustedElPriceOre), 1000)
             elnatKr ==
                 round2(Get(kwh) * (rates.gridTransferOreInclVat
                                    + rates.energyTaxOreInclVat
                                    + rates.norrlandDeductionOreInclVat), 1000)
             totalKr == round2(elhandelKr + elnatKr, 100)
         IN [adjustedElPriceOre |->
                 Some(round2(Get(adjustedElPriceOre), 1) \div 100),
             elhandelKr |-> elhandelKr,
             elnatKr |-> elnatKr,
             totalKr |-> totalKr]

calculateMonth(monthKey, spotOreInclVat, meKWh, neighborKWh, rates) ==
    LET warnings == missingWarnings(spotOreInclVat, meKWh, neighborKWh)
        appliedRates ==
            [localDiscountOreInclVat |-> rates.localDiscountOreInclVat,
             gridTransferOreInclVat |-> rates.gridTransferOreInclVat,
             energyTaxOreInclVat |-> rates.energyTaxOreInclVat,
             norrlandDeductionOreInclVat |-> rates.norrlandDeductionOreInclVat]
        adjustedElPriceOre ==
            IF spotOreInclVat # None
            THEN Some(Get(spotOreInclVat) - rates.localDiscountOreInclVat)
            ELSE None
    IN [inputs |-> [spotOreInclVat |-> spotOreInclVat, meKWh |-> meKWh,
                    neighborKWh |-> neighborKWh],
        appliedRates |-> appliedRates,
        result |-> [me |-> buildResult(spotOreInclVat, adjustedElPriceOre, rates, meKWh),
                    neighbor |-> buildResult(spotOreInclVat, adjustedElPriceOre, rates,
                                             neighborKWh)],
        warnings |-> warnings]

----------------------------------------------------------------------------
(* LedgerReconciler: the merge (lines 487-527) *)

\* monthMap.get(monthKey): the last record of the month, None when there is none
monthMapGet(months, monthKey) ==
    LET hits == { i \in 1..Len(months) :
                    toMonthKey(months[i].year, months[i].month) = monthKey }
    IN IF hits = {} THEN None
       ELSE Some(months[CHOOSE i \in hits : \A j \in hits : j <= i])

\* existing?.isLocked
carryLocked(existing) == existing # None /\ Get(existing).isLocked

\* the loop body with the prior record's inputs used where the fetch has
\* no value
mergeMonthKeepingPrior(ym, prior, rates, jd, mu, nu) ==
    LET monthKey == toMonthKey(ym.year, ym.month)
        existing == monthMapGet(prior, monthKey)
        orPrior(fetched, field) ==
            IF fetched = None /\ existing # None THEN Get(existing).inputs[field]
            ELSE fetched
    IN IF carryLocked(existing)
       THEN [record |-> Get(existing), rates |-> rates]
       ELSE LET spotOreInclVat ==
                    orPrior(spotLookup(jd, ym.year, ym.month), "spotOreInclVat")
                meKWh == orPrior(usageLookup(mu, monthKey), "meKWh")
                neighborKWh == orPrior(usageLookup(nu, monthKey), "neighborKWh")
                selected == selectRates(rates, monthKey)
                calculated == calculateMonth(monthKey, spotOreInclVat, meKWh,
                                             neighborKWh, selected.match)
            IN [record |->
                    [year |-> ym.year,
                     month |-> ym.month,
                     isLocked |-> IF existing = None THEN FALSE
                                  ELSE Get(existing).isLocked,
                     inputs |-> calculated.inputs,
                     appliedRates |-> calculated.appliedRates,
                     result |-> calculated.result,
                     warnings |-> calculated.warnings],
                rates |-> selected.rates]

\* the loop body with a month locked once it is computed without warning
mergeMonthLockingComplete(ym, prior, rates, jd, mu, nu) ==
    LET monthKey == toMonthKey(ym.year, ym.month)
        existing == monthMapGet(prior, monthKey)
    IN IF carryLocked(existing)
       THEN [record |-> Get(existing), rates |-> rates]
       ELSE LET spotOreInclVat == spotLookup(jd, ym.year, ym.month)
                meKWh == usageLookup(mu, monthKey)
                neighborKWh == usageLookup(nu, monthKey)
                selected == selectRates(rates, monthKey)
                calculated == calculateMonth(monthKey, spotOreInclVat, meKWh,
                                             neighborKWh, selected.match)
            IN [record |->
                    [year |-> ym.year,
                     month |-> ym.month,
                     isLocked |-> calculated.warnings = << >>,
                     inputs |-> calculated.inputs,
                     appliedRates |-> calculated.appliedRates,
                     result |-> calculated.result,
                     warnings |-> calculated.warnings],
                rates |-> selected.rates]

\* one iteration of the loop: the record pushed and the rates array after it
mergeMonth(ym, prior, rates, jd, mu, nu) ==
    LET monthKey == toMonthKey(ym.year, ym.month)
        existing == monthMapGet(prior, monthKey)
    IN IF carryLocked(existing)
       THEN [record |-> Get(existing), rates |-> rates]
       ELSE LET spotOreInclVat == spotLookup(jd, ym.year, ym.month)
                meKWh == usageLookup(mu, monthKey)
                neighborKWh == usageLookup(nu, monthKey)
                selected == selectRates(rates, monthKey)
                calculated == calculateMonth(monthKey, spotOreInclVat, meKWh,
                                             neighborKWh, selected.match)
            IN [record |->
                    [year |-> ym.year,
                     month |-> ym.month,
                     isLocked |-> IF existing = None THEN FALSE
                                  ELSE Get(existing).isLocked,
                     inputs |-> calculated.inputs,
                     appliedRates |-> calculated.appliedRates,
                     result |-> calculated.result,
                     warnings |-> calculated.warnings],
                rates |-> selected.rates]

RECURSIVE mergeLoop(_, _, _, _, _, _, _)
mergeLoop(list, updatedMonths, prior, rates, jd, mu, nu) ==
    IF list = << >> THEN [months |-> updatedMonths, rates |-> rates]
    ELSE LET step == mergeMonth(list[1], prior, rates, jd, mu, nu)
         IN mergeLoop(Tail(list), Append(updatedMonths, step.record), prior,
                      step.rates, jd, mu, nu)

\* the merge done whatever the status
mergePhaseAlways(status, led, list, jd, mu, nu) ==
    LET merged == mergeLoop(list, << >>, led.months, led.rates, jd, mu, nu)
    IN [led EXCEPT !.months = merged.months, !.rates = merged.rates]

\* the merge with updatedMonths put after the months already there
mergePhaseAppending(status, led, list, jd, mu, nu) ==
    IF status = "OK"
    THEN LET merged == mergeLoop(list, << >>, led.months, led.rates, jd, mu, nu)
         IN [led EXCEPT !.months = led.months \o merged.months, !.rates = merged.rates]
    ELSE led

\* if (lastRunStatus === "OK") { ... ledger.months = updatedMonths; }
mergePhase(status, led, list, jd, mu, nu) ==
    IF status = "OK"
    THEN LET merged == mergeLoop(list, << >>, led.months, led.rates, jd, mu, nu)
         IN [led EXCEPT !.months = merged.months, !.rates = merged.rates]
    ELSE led

\* ledger.meta.updatedAtUtc / lastRunStatus / lastError (lines 528-530)
withMeta(led, now, status, err) ==
    [led EXCEPT !.meta = [updatedAtUtc |-> now, lastRunStatus |-> status,
                          lastError |-> err]]

----------------------------------------------------------------------------
(* The inputs of a run: the ledger file, the clock, the environment *)

Identities == [siteId |-> 1, meUserId |-> 11, neighborUserId |-> 22]

LedgerRates == << Rate(<< 2024, 1 >>, 5, 20, 40, 5), Rate(<< 2024, 2 >>, 6, 21, 41, 5) >>

\* a month record as a person wrote it into the file: its numbers are not
\* what any fetch would give
ManualRecord(year, month, isLocked) ==
    [year |-> year,
     month |-> month,
     isLocked |-> isLocked,
     inputs |-> [spotOreInclVat |-> Some(77), meKWh |-> Some(500),
                 neighborKWh |-> None],
     appliedRates |-> [localDiscountOreInclVat |-> 5, gridTransferOreInclVat |-> 20,
                       energyTaxOreInclVat |-> 40, norrlandDeductionOreInclVat |-> 5],
     result |-> [me |-> [adjustedElPriceOre |-> Some(72), elhandelKr |-> 3600,
                         elnatKr |-> 3250, totalKr |-> 6850],
                 neighbor |-> [adjustedElPriceOre |-> Some(72), elhandelKr |-> 0,
                               elnatKr |-> 0, totalKr |-> 0]],
     warnings |-> << "MissingEaseeUsageNeighbor" >>]

\* the months arrays of the ledger files a run may find: none yet, records
\* written by hand (one of them for a month before the start month), and
\* records as an earlier run wrote them
InitialMonths ==
    { << >>,
      << ManualRecord(2024, 1, FALSE) >>,
      << ManualRecord(2023, 12, TRUE) >>,
      << ManualRecord(2023, 12, TRUE), ManualRecord(2024, 1, FALSE) >>,
      mergeLoop(listMonths(startKey, << 2024, 2 >>), << >>, << >>, LedgerRates,
                (2024 :> (1 :> 100)), (<< 2024, 1 >> :> Some(105)), << >>).months }

Ledger(months, meta) ==
    [identities |-> Identities, rates |-> LedgerRates, months |-> months, meta |-> meta]

InitialMeta == [updatedAtUtc |-> startKey, lastRunStatus |-> "OK", lastError |-> None]

addMonths(key, n) ==
    << key[1] + ((key[2] - 1 + n) \div 12), ((key[2] - 1 + n) % 12) + 1 >>

Clocks == { addMonths(startKey, n) : n \in 0..MaxElapsed }

Env(tok, userName, password) ==
    [EASEE_TOKEN |-> tok, EASEE_USERNAME |-> userName, EASEE_PASSWORD |-> password]

Envs ==
    { Env(Some("env-token"), None, None),
      Env(Some("env-token"), Some("user"), Some("secret")),
      Env(None, Some("user"), Some("secret")),
      Env(None, Some("user"), None),
      Env(None, None, None) }

\* !x for a string or undefined
Falsy(o) == o = None \/ Get(o) = ""

----------------------------------------------------------------------------
(* main *)

JamtkraftPolicy ==
    Policy(DefaultRetries, DefaultRetryDelayMs, << "Jamtkraft fetch" >>, TRUE)

LoginPolicy == DefaultPolicy(<< "Easee login" >>)

SiteUsersPolicy(siteId) ==
    DefaultPolicy(<< "Easee site users (", ToString(siteId), ")" >>)

\* the monthly usage call made with the insecure fallback allowed
MonthlyPolicyInsecure(userId) ==
    Policy(DefaultRetries, DefaultRetryDelayMs,
           << "Easee monthly usage (", ToString(userId), ")" >>, TRUE)

MonthlyPolicy(userId) ==
    DefaultPolicy(<< "Easee monthly usage (", ToString(userId), ")" >>)

\* lastRunStatus = "FAIL" (line 483)
catchStatus == "FAIL"

ResetFetch ==
    /\ fpc' = "idle"
    /\ fcall' = NoCall
    /\ attempt' = 0
    /\ fetchLastError' = None
    /\ fres' = NoRes
    /\ flog' = << >>
    /\ netLast' = NoRes

MarkLast(steps, outcome) ==
    [steps EXCEPT ![Len(steps)] = [@ EXCEPT !.outcome = outcome]]

Step(name) == [step |-> name, outcome |-> "pending"]

\* From the end of the try/catch to the first writeFile being issued
\* (lines 487-533).
EndFetchPhase(status, err, thrown, jd, mu, nu) ==
    LET next == withMeta(mergePhase(status, ledger, monthList, jd, mu, nu),
                         clock, status, err)
    IN /\ lastRunStatus' = status
       /\ lastError' = err
       /\ jamtkraftData' = jd
       /\ meUsage' = mu
       /\ neighborUsage' = nu
       /\ ledger' = next
       /\ payload' = Some(next)
       /\ phases' = phases \o (IF status = "OK"
                               THEN << "OK", "MERGING", "PERSISTING" >>
                               ELSE << "FAILED", "PERSISTING" >>)
       /\ pc' = "writeData"
       /\ caught' = thrown
       /\ ResetFetch
       /\ UNCHANGED << disk, clock, env, monthList, loaded, insecureSent, writes,
                       arg, ret >>

\* catch (error) { lastRunStatus = "FAIL"; lastError = error.message } (lines 482-485)
Catch(error, jd, mu, nu) ==
    EndFetchPhase(catchStatus, Some(error.message), Some(error), jd, mu, nu)

\* the next awaited call of the try block
NextCall(name, url, policy, tok, jd, mu, nu) ==
    /\ fetchWithRetryCall(url, policy)
    /\ netLast' = NoRes
    /\ pc' = name
    /\ token' = tok
    /\ jamtkraftData' = jd
    /\ meUsage' = mu
    /\ neighborUsage' = nu
    /\ issued' = Append(MarkLast(issued, "ok"), Step(name))
    /\ UNCHANGED << disk, clock, env, ledger, monthList, lastError, lastRunStatus,
                    payload, loaded, phases, insecureSent, writes, caught, arg, ret >>

Settled == fpc \in { "returned", "thrown" }

\* A run starts: the ledger is read, the environment and the clock are
\* read, and parseJamtkraft issues its request (lines 421-439, 99-110).
StartRun ==
    /\ pc = "idle"
    /\ \E now \in Clocks, e \in Envs :
          /\ clock' = now
          /\ env' = e
          /\ monthList' = monthListAt(now)
    /\ ledger' = disk.data
    /\ loaded' = disk.data
    /\ jamtkraftData' = << >>
    /\ meUsage' = << >>
    /\ neighborUsage' = << >>
    /\ token' = None
    /\ lastError' = None
    /\ lastRunStatus' = "OK"
    /\ payload' = None
    /\ fetchWithRetryCall(JAMTKRAFT_URL, JamtkraftPolicy)
    /\ netLast' = NoRes
    /\ insecureSent' = {}
    /\ issued' = << Step("parseJamtkraft") >>
    /\ phases' = << "INIT", "FETCHING" >>
    /\ writes' = << >>
    /\ caught' = None
    /\ pc' = "parseJamtkraft"
    /\ UNCHANGED << disk, arg, ret >>

\* the credentials with the username/password pair tried before the token
AfterParseJamtkraftLoginFirst ==
    /\ pc = "parseJamtkraft"
    /\ Settled
    /\ LET r == parseJamtkraftResult(fres)
       IN IF r.kind = "error"
          THEN /\ Catch(r.v, jamtkraftData, meUsage, neighborUsage)
               /\ issued' = MarkLast(issued, "failed")
               /\ UNCHANGED token
          ELSE IF ~Falsy(env.EASEE_USERNAME) /\ ~Falsy(env.EASEE_PASSWORD)
          THEN NextCall("loginEasee", LoginUrl, LoginPolicy, env.EASEE_TOKEN,
                        r.v, meUsage, neighborUsage)
          ELSE IF ~Falsy(env.EASEE_TOKEN)
          THEN NextCall("fetchEaseeSiteUsers", SiteUsersUrl(ledger.identities.siteId),
                        SiteUsersPolicy(ledger.identities.siteId), env.EASEE_TOKEN,
                        r.v, meUsage, neighborUsage)
          ELSE /\ Catch(PlainError(<< "Missing Easee credentials. Set EASEE_TOKEN or EASEE_USERNAME/EASEE_PASSWORD." >>),
                        r.v, meUsage, neighborUsage)
               /\ issued' = MarkLast(issued, "ok")
               /\ token' = env.EASEE_TOKEN

\* parseJamtkraft returns or throws; then the credentials (lines 111-116,
\* 264-268, 439-449)
AfterParseJamtkraft ==
    /\ pc = "parseJamtkraft"
    /\ Settled
    /\ LET r == parseJamtkraftResult(fres)
       IN IF r.kind = "error"
          THEN /\ Catch(r.v, jamtkraftData, meUsage, neighborUsage)
               /\ issued' = MarkLast(issued, "failed")
               /\ UNCHANGED token
          ELSE IF ~Falsy(env.EASEE_TOKEN)
          THEN NextCall("fetchEaseeSiteUsers", SiteUsersUrl(ledger.identities.siteId),
                        SiteUsersPolicy(ledger.identities.siteId), env.EASEE_TOKEN,
                        r.v, meUsage, neighborUsage)
          ELSE IF Falsy(env.EASEE_USERNAME) \/ Falsy(env.EASEE_PASSWORD)
          THEN /\ Catch(PlainError(<< "Missing Easee credentials. Set EASEE_TOKEN or EASEE_USERNAME/EASEE_PASSWORD." >>),
                        r.v, meUsage, neighborUsage)
               /\ issued' = MarkLast(issued, "ok")
               /\ token' = env.EASEE_TOKEN
          ELSE NextCall("loginEasee", LoginUrl, LoginPolicy, env.EASEE_TOKEN,
                        r.v, meUsage, neighborUsage)

\* loginEasee with a failure that does not end the try block
AfterLoginEaseeContinuing ==
    /\ pc = "loginEasee"
    /\ Settled
    /\ LET r == loginEaseeResult(fres)
       IN /\ fetchWithRetryCall(SiteUsersUrl(ledger.identities.siteId),
                                SiteUsersPolicy(ledger.identities.siteId))
          /\ netLast' = NoRes
          /\ pc' = "fetchEaseeSiteUsers"
          /\ token' = IF r.kind = "error" THEN token ELSE r.v
          /\ issued' = Append(MarkLast(issued, IF r.kind = "error" THEN "failed" ELSE "ok"),
                              Step("fetchEaseeSiteUsers"))
          /\ UNCHANGED << disk, clock, env, ledger, monthList, jamtkraftData, meUsage,
                          neighborUsage, lastError, lastRunStatus, payload, loaded,
                          phases, insecureSent, writes, caught, arg, ret >>

\* loginEasee returns or throws (lines 340-347, 447-449)
AfterLoginEasee ==
    /\ pc = "loginEasee"
    /\ Settled
    /\ LET r == loginEaseeResult(fres)
       IN IF r.kind = "error"
          THEN /\ Catch(r.v, jamtkraftData, meUsage, neighborUsage)
               /\ issued' = MarkLast(issued, "failed")
               /\ UNCHANGED token
          ELSE NextCall("fetchEaseeSiteUsers", SiteUsersUrl(ledger.identities.siteId),
                        SiteUsersPolicy(ledger.identities.siteId), r.v,
                        jamtkraftData, meUsage, neighborUsage)

\* fetchEaseeSiteUsers returns or throws; the identity check (lines 306-309, 449-476)
AfterFetchEaseeSiteUsers ==
    /\ pc = "fetchEaseeSiteUsers"
    /\ Settled
    /\ LET r == fetchEaseeSiteUsersResult(fres)
       IN IF r.kind = "error"
          THEN /\ Catch(r.v, jamtkraftData, meUsage, neighborUsage)
               /\ issued' = MarkLast(issued, "failed")
               /\ UNCHANGED token
          ELSE LET availableUserIds == availableUserIdsOf(usersArrayOf(r.v))
                   missing == missingUserIds(ledger.identities, availableUserIds)
               IN IF missing # << >>
                  THEN /\ Catch(identityError(ledger.identities, missing, availableUserIds),
                                jamtkraftData, meUsage, neighborUsage)
                       /\ issued' = MarkLast(issued, "failed")
                       /\ UNCHANGED token
                  ELSE NextCall("fetchEaseeMonthlyUsageMe",
                                MonthlyUrl(ledger.identities.siteId, ledger.identities.meUserId),
                                MonthlyPolicy(ledger.identities.meUserId), token,
                                jamtkraftData, meUsage, neighborUsage)

\* the primary identity's usage returns or throws (lines 282-292, 472-481)
AfterFetchEaseeMonthlyUsageMe ==
    /\ pc = "fetchEaseeMonthlyUsageMe"
    /\ Settled
    /\ LET r == fetchEaseeMonthlyUsageResult(fres, ledger.identities.meUserId)
       IN IF r.kind = "error"
          THEN /\ Catch(r.v, jamtkraftData, meUsage, neighborUsage)
               /\ issued' = MarkLast(issued, "failed")
               /\ UNCHANGED token
          ELSE NextCall("fetchEaseeMonthlyUsageNeighbor",
                        MonthlyUrl(ledger.identities.siteId, ledger.identities.neighborUserId),
                        MonthlyPolicy(ledger.identities.neighborUserId), token,
                        jamtkraftData, r.v, neighborUsage)

\* the secondary identity's usage returns or throws; on success the merge
\* (lines 282-292, 477-533)
AfterFetchEaseeMonthlyUsageNeighbor ==
    /\ pc = "fetchEaseeMonthlyUsageNeighbor"
    /\ Settled
    /\ LET r == fetchEaseeMonthlyUsageResult(fres, ledger.identities.neighborUserId)
       IN IF r.kind = "error"
          THEN /\ Catch(r.v, jamtkraftData, meUsage, neighborUsage)
               /\ issued' = MarkLast(issued, "failed")
               /\ UNCHANGED token
          ELSE /\ EndFetchPhase(lastRunStatus, lastError, None, jamtkraftData, meUsage, r.v)
               /\ issued' = MarkLast(issued, "ok")
               /\ UNCHANGED token

WriteAttempt(target, ok) == [target |-> target, ok |-> ok]

\* await fs.writeFile(dataPath, payload) succeeds; the second write is issued
WriteDataOk ==
    /\ pc = "writeData"
    /\ disk' = [disk EXCEPT !.data = Get(payload)]
    /\ writes' = Append(writes, WriteAttempt("data", TRUE))
    /\ pc' = "writeDocs"
    /\ UNCHANGED << clock, env, ledger, monthList, jamtkraftData, meUsage,
                    neighborUsage, token, lastError, lastRunStatus, payload,
                    loaded, issued, phases, insecureSent, caught, arg, ret >>
    /\ UNCHANGED << fpc, fcall, attempt, fetchLastError, fres, flog, netLast >>

\* await fs.writeFile(dataPath, payload) rejects: main() rejects, nothing
\* handles it, the process ends
WriteDataFail ==
    /\ pc = "writeData"
    /\ writes' = Append(writes, WriteAttempt("data", FALSE))
    /\ pc' = "crashed"
    /\ UNCHANGED << disk, clock, env, ledger, monthList, jamtkraftData, meUsage,
                    neighborUsage, token, lastError, lastRunStatus, payload,
                    loaded, issued, phases, insecureSent, caught, arg, ret >>
    /\ UNCHANGED << fpc, fcall, attempt, fetchLastError, fres, flog, netLast >>

\* await fs.writeFile(docsDataPath, payload) succeeds; main returns
WriteDocsOk ==
    /\ pc = "writeDocs"
    /\ disk' = [disk EXCEPT !.docs = Get(payload)]
    /\ writes' = Append(writes, WriteAttempt("docs", TRUE))
    /\ phases' = Append(phases, "DONE")
    /\ pc' = "done"
    /\ UNCHANGED << clock, env, ledger, monthList, jamtkraftData, meUsage,
                    neighborUsage, token, lastError, lastRunStatus, payload,
                    loaded, issued, insecureSent, caught, arg, ret >>
    /\ UNCHANGED << fpc, fcall, attempt, fetchLastError, fres, flog, netLast >>

\* await fs.writeFile(docsDataPath, payload) rejects
WriteDocsFail ==
    /\ pc = "writeDocs"
    /\ writes' = Append(writes, WriteAttempt("docs", FALSE))
    /\ pc' = "crashed"
    /\ UNCHANGED << disk, clock, env, ledger, monthList, jamtkraftData, meUsage,
                    neighborUsage, token, lastError, lastRunStatus, payload,
                    loaded, issued, phases, insecureSent, caught, arg, ret >>
    /\ UNCHANGED << fpc, fcall, attempt, fetchLastError, fres, flog, netLast >>

\* Before the run a person marks a month of the ledger file as locked.
HumanLock ==
    /\ pc = "idle"
    /\ \E i \in 1..Len(disk.data.months) :
          /\ ~disk.data.months[i].isLocked
          /\ disk' = [disk EXCEPT !.data.months[i].isLocked = TRUE]
    /\ UNCHANGED << clock, pc, env, ledger, monthList, jamtkraftData, meUsage,
                    neighborUsage, token, lastError, lastRunStatus, payload,
                    loaded, issued, phases, insecureSent, writes, caught, arg, ret >>
    /\ UNCHANGED << fpc, fcall, attempt, fetchLastError, fres, flog, netLast >>

\* a step of fetchWithRetry inside a run
RunFetchStep ==
    /\ pc \in { "parseJamtkraft", "loginEasee", "fetchEaseeSiteUsers",
                "fetchEaseeMonthlyUsageMe", "fetchEaseeMonthlyUsageNeighbor" }
    /\ FetchStep
    /\ UNCHANGED << disk, clock, pc, env, ledger, monthList, jamtkraftData,
                    meUsage, neighborUsage, token, lastError, lastRunStatus,
                    payload, loaded, issued, phases, writes, caught, arg, ret >>

Init ==
    /\ \E months \in InitialMonths :
          disk = [data |-> Ledger(months, InitialMeta),
                  docs |-> Ledger(months, InitialMeta)]
    /\ clock = startKey
    /\ pc = "idle"
    /\ env = Env(None, None, None)
    /\ ledger = Ledger(<< >>, InitialMeta)
    /\ loaded = Ledger(<< >>, InitialMeta)
    /\ monthList = << >>
    /\ jamtkraftData = << >>
    /\ meUsage = << >>
    /\ neighborUsage = << >>
    /\ token = None
    /\ lastError = None
    /\ lastRunStatus = "OK"
    /\ payload = None
    /\ fpc = "idle"
    /\ fcall = NoCall
    /\ attempt = 0
    /\ fetchLastError = None
    /\ fres = NoRes
    /\ flog = << >>
    /\ netLast = NoRes
    /\ issued = << >>
    /\ phases = << >>
    /\ insecureSent = {}
    /\ writes = << >>
    /\ caught = None
    /\ arg = None
    /\ ret = None

Next ==
    \/ StartRun
    \/ RunFetchStep
    \/ AfterParseJamtkraft
    \/ AfterLoginEasee
    \/ AfterFetchEaseeSiteUsers
    \/ AfterFetchEaseeMonthlyUsageMe
    \/ AfterFetchEaseeMonthlyUsageNeighbor
    \/ WriteDataOk
    \/ WriteDataFail
    \/ WriteDocsOk
    \/ WriteDocsFail
    \/ HumanLock

Spec == Init /\ [][Next]_vars

----------------------------------------------------------------------------
(* fetchWithRetry on its own: any url, any policy with retries >= 1 *)

Urls ==
    { JAMTKRAFT_URL, LoginUrl, SiteUsersUrl(Identities.siteId),
      MonthlyUrl(Identities.siteId, Identities.meUserId) }

Policies ==
    { Policy(retries, retryDelayMs, label, allowInsecureTls) :
        retries \in 1..MaxRetries,
        retryDelayMs \in { 1000, 250 },
        label \in { << "Fetch" >>, << "Easee monthly usage (", "11", ")" >> },
        allowInsecureTls \in BOOLEAN }

\* everything of main at rest
MainAtRest(position) ==
    /\ disk = [data |-> Ledger(<< >>, InitialMeta), docs |-> Ledger(<< >>, InitialMeta)]
    /\ clock = startKey
    /\ pc = position
    /\ env = Env(None, None, None)
    /\ ledger = Ledger(<< >>, InitialMeta)
    /\ loaded = Ledger(<< >>, InitialMeta)
    /\ monthList = << >>
    /\ jamtkraftData = << >>
    /\ meUsage = << >>
    /\ neighborUsage = << >>
    /\ token = None
    /\ lastError = None
    /\ lastRunStatus = "OK"
    /\ payload = None
    /\ issued = << >>
    /\ phases = << >>
    /\ writes = << >>
    /\ caught = None

FetchAtRest ==
    /\ fpc = "idle"
    /\ fcall = NoCall
    /\ attempt = 0
    /\ fetchLastError = None
    /\ fres = NoRes
    /\ flog = << >>
    /\ netLast = NoRes
    /\ insecureSent = {}

InitFetch ==
    /\ MainAtRest("call fetchWithRetry")
    /\ FetchAtRest
    /\ \E url \in Urls, policy \in Policies : arg = [url |-> url, policy |-> policy]
    /\ ret = None

CallFetchWithRetry ==
    /\ pc = "call fetchWithRetry"
    /\ fetchWithRetryCall(arg.url, arg.policy)
    /\ pc' = "in fetchWithRetry"
    /\ UNCHANGED << netLast, insecureSent, arg, ret >>
    /\ UNCHANGED << disk, clock, env, ledger, monthList, jamtkraftData, meUsage,
                    neighborUsage, token, lastError, lastRunStatus, payload,
                    loaded, issued, phases, writes, caught >>

LoneFetchStep ==
    /\ pc = "in fetchWithRetry"
    /\ FetchStep
    /\ UNCHANGED << mainVars, arg, ret >>

NextFetch ==
    \/ CallFetchWithRetry
    \/ LoneFetchStep

SpecFetch == InitFetch /\ [][NextFetch]_vars

----------------------------------------------------------------------------
(* selectRates on its own: any non-empty list of rows, any month key *)

RowPool ==
    { Rate(<< 2024, 1 >>, 5, 20, 40, 5),
      Rate(<< 2024, 3 >>, 6, 21, 41, 5),
      Rate(<< 2024, 11 >>, 7, 22, 42, 5),
      Rate(<< 2025, 2 >>, 8, 23, 43, 5) }

RowLists == UNION { [1..n -> RowPool] : n \in 1..MaxRows }

QueryKeys == { << 2023, 12 >>, << 2024, 1 >>, << 2024, 2 >>, << 2024, 12 >>, << 2025, 6 >> }

InitRates ==
    /\ MainAtRest("call selectRates")
    /\ FetchAtRest
    /\ \E rates \in RowLists, monthKey \in QueryKeys :
          arg = [rates |-> rates, monthKey |-> monthKey]
    /\ ret = None

\* ret.match is the value returned, ret.rates the argument array after the call
CallSelectRates ==
    /\ pc = "call selectRates"
    /\ ret' = Some(selectRates(arg.rates, arg.monthKey))
    /\ pc' = "selectRates returned"
    /\ UNCHANGED << arg, fetchVars >>
    /\ UNCHANGED << disk, clock, env, ledger, monthList, jamtkraftData, meUsage,
                    neighborUsage, token, lastError, lastRunStatus, payload,
                    loaded, issued, phases, writes, caught >>

NextRates == CallSelectRates

SpecRates == InitRates /\ [][NextRates]_vars

----------------------------------------------------------------------------
(* calculateMonth on its own: spot price and usages known or not, any row  *)

\* prices and rate components range over 0..MaxOre (and the values of the
\* worked example)
MaxOre == 5
\* usages range over 0..MaxTenths tenths of a kWh (and 10.0 kWh)
MaxTenths == 3

CalcSpots == { None } \cup { Some(p) : p \in 0..MaxOre \cup { 100 } }

CalcUsages == { None } \cup { Some(u) : u \in 0..MaxTenths \cup { 100 } }

CalcRates ==
    { Rate(<< 2024, 1 >>, 5, 20, 40, 5) }
    \cup { Rate(<< 2024, 1 >>, d, g, e, n) :
             d \in { 0, 5 }, g \in 0..MaxOre, e \in { 0, 40 }, n \in { 0, 5 } }

InitCalc ==
    /\ MainAtRest("call calculateMonth")
    /\ FetchAtRest
    /\ \E spot \in CalcSpots, me \in CalcUsages, nb \in CalcUsages, rates \in CalcRates :
          arg = [monthKey |-> << 2024, 3 >>, spotOreInclVat |-> spot, meKWh |-> me,
                 neighborKWh |-> nb, rates |-> rates]
    /\ ret = None

CallCalculateMonth ==
    /\ pc = "call calculateMonth"
    /\ ret' = Some(calculateMonth(arg.monthKey, arg.spotOreInclVat, arg.meKWh,
                                  arg.neighborKWh, arg.rates))
    /\ pc' = "calculateMonth returned"
    /\ UNCHANGED << arg, fetchVars >>
    /\ UNCHANGED << disk, clock, env, ledger, monthList, jamtkraftData, meUsage,
                    neighborUsage, token, lastError, lastRunStatus, payload,
                    loaded, issued, phases, writes, caught >>

NextCalc == CallCalculateMonth

SpecCalc == InitCalc /\ [][NextCalc]_vars

----------------------------------------------------------------------------
(* The extraction chain on its own: any document, by what each strategy    *)
(* finds in it                                                             *)

\* the cells of a year row all of whose twelve values are numbers
FullYear(value) == [i \in 1..12 |-> Cell(Some(i), Some(value))]

\* what parseNextData or parseTable can find: no matching table, a table
\* without data rows, a row whose first cell is not a year, a year row
\* without any numeric value, year rows with values (and an unrecognized
\* header), a year row with values followed by one without
TableViews(value) ==
    { None,
      Some(<< >>),
      Some(<< RawRow(None, << Cell(Some(1), Some(value)) >>) >>),
      Some(<< RawRow(Some(2024), << Cell(Some(1), None), Cell(Some(2), None) >>) >>),
      Some(<< RawRow(Some(2024), << Cell(Some(1), Some(value)), Cell(Some(2), None),
                                    Cell(None, Some(value + 1)) >>) >>),
      Some(<< RawRow(Some(2024), << Cell(Some(1), Some(value)) >>),
              RawRow(Some(2025), << Cell(Some(1), None) >>) >>) }

\* what parseText can find: no "Elomrade 2", no match of yearRegex, or
\* matches, each a year with twelve numbers
TextViews ==
    { None,
      Some(<< >>),
      Some(<< RawRow(Some(2024), FullYear(90)) >>) }

ExtractDocs ==
    { Doc(nextData, table, text) :
        nextData \in TableViews(100), table \in TableViews(110), text \in TextViews }

InitExtract ==
    /\ MainAtRest("call extract")
    /\ FetchAtRest
    /\ \E doc \in ExtractDocs : arg = doc
    /\ ret = None

\* parseJamtkraft from cheerio.load(html) on: ret.result is what it returns
\* or throws, ret.tried the strategies it called
CallExtract ==
    /\ pc = "call extract"
    /\ ret' = Some([result |-> parseJamtkraftResult(Ok(Response(TRUE, 200, arg))),
                    tried |-> strategiesTried(arg)])
    /\ pc' = "extract returned"
    /\ UNCHANGED << arg, fetchVars >>
    /\ UNCHANGED << disk, clock, env, ledger, monthList, jamtkraftData, meUsage,
                    neighborUsage, token, lastError, lastRunStatus, payload,
                    loaded, issued, phases, writes, caught >>

NextExtract == CallExtract

SpecExtract == InitExtract /\ [][NextExtract]_vars

----------------------------------------------------------------------------
(* Runs one after the other on the same ledger file.  A run is taken as a  *)
(* whole here, from readFile to the second writeFile, with both writes     *)
(* succeeding; what the upstream services serve stays the same from run to *)
(* run.  Between runs the month may change and a person may lock a month.  *)

\* at most MaxEvents runs, month changes and locks in a behaviour
MaxEvents == 3

\* the clock of the first run: the first months after the start month, and
\* a January with a whole year elapsed
RunClocks == Clocks \cup { << 2025, 1 >> }

\* what the fetch phase of an OK run returns
FetchedTariffs ==
    { (2024 :> (1 :> 100)),
      (2024 :> (1 :> 100 @@ 2 :> 120 @@ 12 :> 80) @@ 2025 :> (1 :> 95)) }

FetchedUsages ==
    { << >>,
      (<< 2024, 1 >> :> Some(105) @@ << 2024, 12 >> :> Some(33)) }

Event(kind, status, now, months) ==
    [kind |-> kind, status |-> status, clock |-> now, after |-> months]

InitRuns ==
    /\ pc = "between runs"
    /\ env = Env(Some("env-token"), None, None)
    /\ ledger = Ledger(<< >>, InitialMeta)
    /\ loaded = Ledger(<< >>, InitialMeta)
    /\ monthList = << >>
    /\ jamtkraftData = << >>
    /\ meUsage = << >>
    /\ neighborUsage = << >>
    /\ token = None
    /\ lastError = None
    /\ lastRunStatus = "OK"
    /\ payload = None
    /\ issued = << >>
    /\ phases = << >>
    /\ writes = << >>
    /\ caught = None
    /\ FetchAtRest
    /\ \E months \in InitialMonths :
          disk = [data |-> Ledger(months, InitialMeta),
                  docs |-> Ledger(months, InitialMeta)]
    /\ clock \in RunClocks
    /\ \E jd \in FetchedTariffs, mu \in FetchedUsages, nu \in FetchedUsages :
          arg = [jamtkraftData |-> jd, meUsage |-> mu, neighborUsage |-> nu]
    /\ ret = << >>

\* main from line 422 to line 534 with the outcome of the try block given
WholeRun(status, err, jd, mu, nu) ==
    LET list == monthListAt(clock)
        next == withMeta(mergePhase(status, disk.data, list, jd, mu, nu),
                         clock, status, err)
    IN /\ loaded' = disk.data
       /\ monthList' = list
       /\ jamtkraftData' = jd
       /\ meUsage' = mu
       /\ neighborUsage' = nu
       /\ lastRunStatus' = status
       /\ lastError' = err
       /\ ledger' = next
       /\ payload' = Some(next)
       /\ disk' = [data |-> next, docs |-> next]
       /\ ret' = Append(ret, Event("run", status, clock, next.months))
       /\ UNCHANGED << clock, pc, env, token, issued, phases, writes, caught, arg,
                       fetchVars >>

\* a run all of whose fetch steps succeed
RunOk ==
    /\ pc = "between runs"
    /\ Len(ret) < MaxEvents
    /\ WholeRun("OK", None, arg.jamtkraftData, arg.meUsage, arg.neighborUsage)

\* a run whose first fetch step fails
RunFail ==
    /\ pc = "between runs"
    /\ Len(ret) < MaxEvents
    /\ WholeRun(catchStatus,
                Some(PlainError(<< "Jamtkraft request failed with ", "503" >>).message),
                << >>, << >>, << >>)

\* the next run happens a month later
MonthPasses ==
    /\ pc = "between runs"
    /\ Len(ret) < MaxEvents
    /\ clock' = addMonths(clock, 1)
    /\ ret' = Append(ret, Event("tick", "", clock', disk.data.months))
    /\ UNCHANGED << disk, pc, env, ledger, monthList, jamtkraftData, meUsage,
                    neighborUsage, token, lastError, lastRunStatus, payload,
                    loaded, issued, phases, writes, caught, arg, fetchVars >>

\* a person locks the earliest month of the ledger file not yet locked
LockNextMonth ==
    /\ pc = "between runs"
    /\ Len(ret) < MaxEvents
    /\ \E i \in 1..Len(disk.data.months) :
          /\ ~disk.data.months[i].isLocked
          /\ \A j \in 1..(i - 1) : disk.data.months[j].isLocked
          /\ disk' = [disk EXCEPT !.data.months[i].isLocked = TRUE]
    /\ ret' = Append(ret, Event("lock", "", clock, disk'.data.months))
    /\ UNCHANGED << clock, pc, env, ledger, monthList, jamtkraftData, meUsage,
                    neighborUsage, token, lastError, lastRunStatus, payload,
                    loaded, issued, phases, writes, caught, arg, fetchVars >>

NextRuns ==
    \/ RunOk
    \/ RunFail
    \/ MonthPasses
    \/ LockNextMonth

SpecRuns == InitRuns /\ [][NextRuns]_vars

----------------------------------------------------------------------------
(* The merge of an OK run on two prior ledgers that differ only in what    *)
(* their unlocked months hold, with the same clock and the same fetched    *)
(* data                                                                    *)

\* months arrays of a prior ledger: written by hand, locked or not, in and
\* out of the range walked, and as an earlier run wrote them
TwinBases ==
    { << ManualRecord(2024, 1, FALSE) >>,
      << ManualRecord(2024, 1, TRUE), ManualRecord(2024, 2, FALSE) >>,
      << ManualRecord(2023, 12, TRUE), ManualRecord(2024, 1, FALSE),
         ManualRecord(2024, 2, FALSE) >>,
      mergeLoop(listMonths(startKey, << 2024, 2 >>), << >>, << >>, LedgerRates,
                (2024 :> (1 :> 100)), (<< 2024, 1 >> :> Some(105)), << >>).months }

\* other inputs, result and warnings for a record
OtherContents ==
    { [inputs |-> [spotOreInclVat |-> None, meKWh |-> None, neighborKWh |-> None],
       result |-> [me |-> [adjustedElPriceOre |-> None, elhandelKr |-> 0,
                           elnatKr |-> 0, totalKr |-> 0],
                   neighbor |-> [adjustedElPriceOre |-> None, elhandelKr |-> 0,
                                 elnatKr |-> 0, totalKr |-> 0]],
       warnings |-> << "MissingJamtkraftPrice", "MissingEaseeUsageMe",
                       "MissingEaseeUsageNeighbor" >>],
      [inputs |-> [spotOreInclVat |-> Some(55), meKWh |-> Some(40),
                   neighborKWh |-> Some(60)],
       result |-> [me |-> [adjustedElPriceOre |-> Some(50), elhandelKr |-> 200,
                           elnatKr |-> 260, totalKr |-> 460],
                   neighbor |-> [adjustedElPriceOre |-> Some(50), elhandelKr |-> 300,
                                 elnatKr |-> 390, totalKr |-> 690]],
       warnings |-> << >>] }

WithContent(record, content) ==
    [record EXCEPT !.inputs = content.inputs, !.result = content.result,
                   !.warnings = content.warnings]

\* the months arrays that differ from `months` only in the inputs, result
\* and warnings of unlocked records
TwinsOf(months) ==
    { twin \in [1..Len(months) ->
                   { months[i] : i \in 1..Len(months) }
                   \cup { WithContent(months[i], c) :
                            i \in 1..Len(months), c \in OtherContents }] :
        \A i \in 1..Len(months) :
            \/ twin[i] = months[i]
            \/ /\ ~months[i].isLocked
               /\ \E c \in OtherContents : twin[i] = WithContent(months[i], c) }

InitTwin ==
    /\ pc = "call merge"
    /\ disk = [data |-> Ledger(<< >>, InitialMeta), docs |-> Ledger(<< >>, InitialMeta)]
    /\ clock \in RunClocks
    /\ env = Env(Some("env-token"), None, None)
    /\ ledger = Ledger(<< >>, InitialMeta)
    /\ loaded = Ledger(<< >>, InitialMeta)
    /\ monthList = << >>
    /\ jamtkraftData = << >>
    /\ meUsage = << >>
    /\ neighborUsage = << >>
    /\ token = None
    /\ lastError = None
    /\ lastRunStatus = "OK"
    /\ payload = None
    /\ issued = << >>
    /\ phases = << >>
    /\ writes = << >>
    /\ caught = None
    /\ FetchAtRest
    /\ \E base \in TwinBases, jd \in FetchedTariffs, mu \in FetchedUsages,
          nu \in FetchedUsages :
          \E twin \in TwinsOf(base) :
              arg = [a |-> base, b |-> twin, jamtkraftData |-> jd, meUsage |-> mu,
                     neighborUsage |-> nu]
    /\ ret = None

\* lines 487-527 of an OK run on each of the two ledgers
MergeBoth ==
    /\ pc = "call merge"
    /\ LET merged(months) ==
               mergePhase("OK", Ledger(months, InitialMeta), monthListAt(clock),
                          arg.jamtkraftData, arg.meUsage, arg.neighborUsage).months
       IN ret' = Some([a |-> merged(arg.a), b |-> merged(arg.b)])
    /\ pc' = "merge returned"
    /\ UNCHANGED << arg, fetchVars >>
    /\ UNCHANGED << disk, clock, env, ledger, monthList, jamtkraftData, meUsage,
                    neighborUsage, token, lastError, lastRunStatus, payload,
                    loaded, issued, phases, writes, caught >>

NextTwin == MergeBoth

SpecTwin == InitTwin /\ [][NextTwin]_vars

----------------------------------------------------------------------------
(* Vocabulary of the properties *)

\* the run is past the try/catch and the merge
Persisting == pc \in { "writeData", "writeDocs", "done", "crashed" }

RunEnded == pc \in { "done", "crashed" }

Written(target) == \E i \in 1..Len(writes) : writes[i] = WriteAttempt(target, TRUE)

Attempted(target) == \E i \in 1..Len(writes) : writes[i].target = target

\* the snapshots this run has put on disk
Persisted ==
    (IF Written("data") THEN { disk.data } ELSE {})
    \cup (IF Written("docs") THEN { disk.docs } ELSE {})

FetchFailed == caught # None

StepRank(name) ==
    CASE name = "parseJamtkraft" -> 1
      [] name = "loginEasee" -> 2
      [] name = "fetchEaseeSiteUsers" -> 3
      [] name = "fetchEaseeMonthlyUsageMe" -> 4
      [] name = "fetchEaseeMonthlyUsageNeighbor" -> 5

AllStepsSucceeded ==
    /\ issued # << >>
    /\ Last(issued).step = "fetchEaseeMonthlyUsageNeighbor"
    /\ \A i \in 1..Len(issued) : issued[i].outcome = "ok"

\* month keys as numbers, for comparisons that do not go through KeyLeq
KeyOrd(key) == key[1] * 12 + key[2]

IsIssuerError(e) ==
    e \in { TransportError(Some(IssuerCode), None), TransportError(None, Some(IssuerCode)) }

OrdinaryAt(i) == flog[i].kind = "request" /\ ~flog[i].insecure

InsecureAt(i) == flog[i].kind = "request" /\ flog[i].insecure

OrdinaryRequests == { i \in 1..Len(flog) : OrdinaryAt(i) }

InsecureRequests == { i \in 1..Len(flog) : InsecureAt(i) }

\* r is the krona amount num/den in hundredths, rounded half up
IsHalfUp(r, num, den) ==
    /\ 2 * den * r <= 200 * num + den
    /\ 200 * num + den < 2 * den * (r + 1)

CalcReturned == pc = "calculateMonth returned"

\* the usage argument and the breakdown of an identity of the call
CalcUsage(who) == IF who = "me" THEN arg.meKWh ELSE arg.neighborKWh

CalcBreakdown(who) == Get(ret).result[who]

CalcUsageWarning(who) ==
    IF who = "me" THEN "MissingEaseeUsageMe" ELSE "MissingEaseeUsageNeighbor"

CalcKnown(who) == arg.spotOreInclVat # None /\ CalcUsage(who) # None

\* the sum of the three grid components of the row
GridOre(rates) ==
    rates.gridTransferOreInclVat + rates.energyTaxOreInclVat
    + rates.norrlandDeductionOreInclVat

AbsDiff(a, b) == IF a >= b THEN a - b ELSE b - a

ExtractReturned == pc = "extract returned"

StrategyOrder == << "parseNextData", "parseTable", "parseText" >>

\* what the i-th strategy of the chain yields on the document
StrategyResult(doc, i) ==
    CASE i = 1 -> parseNextData(doc)
      [] i = 2 -> parseTable(doc)
      [] i = 3 -> parseText(doc)

\* the rows the i-th strategy reads in the table it matched
StrategyView(doc, i) ==
    CASE i = 1 -> doc.nextData
      [] i = 2 -> doc.table
      [] i = 3 -> doc.text

\* the row is a year row none of whose cells gives a month value
YearWithoutValue(row) ==
    /\ row.year # None
    /\ \A j \in 1..Len(row.cells) : row.cells[j].month = None \/ row.cells[j].value = None

\* the i-th event is a run that ended OK
OkRunAt(i) == ret[i].kind = "run" /\ ret[i].status = "OK"

\* nothing but runs happened between the i-th and the j-th event
OnlyRunsBetween(i, j) == \A k \in (i + 1)..(j - 1) : ret[k].kind = "run"

\* the site-users call has returned a listing to main
SiteUsersListed ==
    /\ pc = "fetchEaseeSiteUsers"
    /\ Settled
    /\ fetchEaseeSiteUsersResult(fres).kind = "ok"

\* the configured identities that the listing just returned does not hold
NotListed ==
    LET listed == availableUserIdsOf(usersArrayOf(fetchEaseeSiteUsersResult(fres).v))
    IN { id \in { ledger.identities.meUserId, ledger.identities.neighborUserId } :
           ~Contains(listed, id) }

UsageApiSteps ==
    { "loginEasee", "fetchEaseeSiteUsers", "fetchEaseeMonthlyUsageMe",
      "fetchEaseeMonthlyUsageNeighbor" }

MissingCredentials ==
    PlainError(<< "Missing Easee credentials. Set EASEE_TOKEN or EASEE_USERNAME/EASEE_PASSWORD." >>)

\* the latest event is a run: disk.data is what it wrote, loaded what it read
JustRan == ret # << >> /\ Last(ret).kind = "run"

\* the locked records of a months array
LockedIn(months) == { months[i] : i \in { j \in 1..Len(months) : months[j].isLocked } }

----------------------------------------------------------------------------
(* C1: every record that is locked in the ledger a run loads is in the    *)
(* ledger the run persists, with every field as it was, whatever the      *)
(* outcome of the run and whatever was fetched; also a locked record      *)
(* whose month is outside startKey..endKey.                               *)
C1_LockedRecordsKept ==
    \A snapshot \in Persisted :
        \A i \in 1..Len(loaded.months) :
            loaded.months[i].isLocked => Contains(snapshot.months, loaded.months[i])

(* C2: when a step of the fetch phase fails, the persisted ledger has the *)
(* months, identities and rates of the prior snapshot and a meta with     *)
(* lastRunStatus "FAIL" and lastError the message of the failure.         *)
C2_FailLeavesMonths ==
    FetchFailed =>
        \A snapshot \in Persisted :
            /\ snapshot.months = loaded.months
            /\ snapshot.identities = loaded.identities
            /\ snapshot.rates = loaded.rates
            /\ snapshot.meta.lastRunStatus = "FAIL"
            /\ snapshot.meta.lastError = Some(Get(caught).message)

C2_Witness ==
    /\ pc = "done"
    /\ FetchFailed
    /\ Last(issued).step = "fetchEaseeMonthlyUsageNeighbor"
    /\ loaded.months # << >>
    /\ monthList # << >>
    /\ DOMAIN jamtkraftData # {}
    /\ DOMAIN meUsage # {}

(* C3: every run ends in DONE having gone through PERSISTING, with a      *)
(* snapshot written whose lastRunStatus is OK exactly when every fetch    *)
(* step succeeded, and MERGING is entered only on the OK branch.          *)
C3_RunEndsDone ==
    /\ Contains(phases, "MERGING") => AllStepsSucceeded
    /\ RunEnded =>
          /\ pc = "done"
          /\ Contains(phases, "PERSISTING")
          /\ Last(phases) = "DONE"
          /\ Persisted # {}
          /\ \A snapshot \in Persisted :
                snapshot.meta.lastRunStatus = IF AllStepsSucceeded THEN "OK" ELSE "FAIL"

(* C4: the two writes are independent: when the run is over, both         *)
(* targets have been attempted, whichever write failed.                   *)
C4_BothTargetsAttempted ==
    RunEnded => Attempted("data") /\ Attempted("docs")

(* C5: the fetch-phase steps are issued in the order tariff, login, site  *)
(* users, usage of the primary, usage of the secondary identity; a step   *)
(* that failed is the last one issued, the run is then FAILED, and the    *)
(* months are as loaded: nothing fetched before the failure is merged.    *)
C5_FetchOrder ==
    /\ issued # << >> => issued[1].step = "parseJamtkraft"
    /\ \A i \in 1..(Len(issued) - 1) :
          /\ issued[i].outcome = "ok"
          /\ \/ StepRank(issued[i + 1].step) = StepRank(issued[i].step) + 1
             \/ /\ issued[i].step = "parseJamtkraft"
                /\ issued[i + 1].step = "fetchEaseeSiteUsers"
                /\ env.EASEE_TOKEN # None
    /\ (issued # << >> /\ Last(issued).outcome = "failed") => FetchFailed
    /\ FetchFailed =>
          /\ Persisting
          /\ lastRunStatus = "FAIL"
          /\ Contains(phases, "FAILED")
          /\ ~Contains(phases, "MERGING")
          /\ Get(payload).months = loaded.months

C5_Witness ==
    /\ pc = "done"
    /\ Len(issued) = 3
    /\ issued[2].step = "loginEasee"
    /\ issued[3] = [step |-> "fetchEaseeSiteUsers", outcome |-> "failed"]
    /\ DOMAIN jamtkraftData # {}
    /\ monthList # << >>
    /\ loaded.months # << >>

(* C6: with failures that are not the fallback condition, fetchWithRetry  *)
(* returns the response of the first attempt that succeeds and issues no  *)
(* request after it; when all `retries` attempts fail it throws an error  *)
(* whose text contains the label and whose cause is the error of the      *)
(* last attempt.                                                          *)
C6_RetryOutcome ==
    (fpc \in { "returned", "thrown" } /\ InsecureRequests = {}) =>
        /\ Last(flog) = Request(FALSE, attempt)
        /\ Cardinality(OrdinaryRequests) = attempt
        /\ attempt <= fcall.policy.retries
        /\ fpc = "returned" =>
              /\ fres.kind = "response"
              /\ netLast.kind = "response"
              /\ fres.v = netLast.v
        /\ fpc = "thrown" =>
              /\ attempt = fcall.policy.retries
              /\ fres.kind = "error"
              /\ netLast.kind = "error"
              /\ IsInfix(fcall.policy.label, fres.v.message)
              /\ fres.v.cause = Some(netLast.v)

C6_Witness ==
    /\ fpc = "thrown"
    /\ InsecureRequests = {}
    /\ fcall.policy.retries = 3
    /\ Cardinality(OrdinaryRequests) = 3
    /\ Len(fcall.policy.label) = 3
    /\ netLast.v = TransportError(Some("ETIMEDOUT"), None)

(* C7: at most `retries` ordinary requests are issued; attempt k + 1 is   *)
(* preceded by a wait of retryDelayMs * k started after the failure of    *)
(* attempt k, for every k < retries; there is no wait after attempt       *)
(* `retries` nor after an attempt that succeeded.                         *)
C7_Backoff ==
    /\ Cardinality(OrdinaryRequests) <= fcall.policy.retries
    /\ \A i \in 1..Len(flog) :
          /\ flog[i].kind = "wait" =>
                /\ i > 1
                /\ flog[i].attempt < fcall.policy.retries
                /\ flog[i - 1] = Request(FALSE, flog[i].attempt)
                /\ flog[i].ms = fcall.policy.retryDelayMs * flog[i].attempt
                /\ i = Len(flog) => fpc = "wait"
                /\ i < Len(flog) => flog[i + 1] = Request(FALSE, flog[i].attempt + 1)
          /\ (OrdinaryAt(i) /\ i > 1) =>
                flog[i - 1] = Waited(fcall.policy.retryDelayMs * (flog[i].attempt - 1),
                                     flog[i].attempt - 1)
          /\ (OrdinaryAt(i) /\ i = 1) => flog[i].attempt = 1
    /\ fpc \in { "returned", "thrown" } => Last(flog).kind = "request"
    /\ fpc = "wait" => Last(flog).kind = "wait"

C7_Witness ==
    /\ fpc = "fetch"
    /\ fcall.policy.retries = 3
    /\ fcall.policy.retryDelayMs = 250
    /\ flog = << Request(FALSE, 1), Waited(250, 1), Request(FALSE, 2),
                 Waited(500, 2), Request(FALSE, 3) >>

(* C8: with allowInsecureTls set, an attempt that fails with the          *)
(* certificate-issuer error is followed at once by exactly one request    *)
(* without certificate validation, after which no ordinary attempt is     *)
(* made; without allowInsecureTls, or on any other error, no request      *)
(* without validation is made.                                            *)
C8_Fallback ==
    /\ Cardinality(InsecureRequests) <= 1
    /\ \A i \in InsecureRequests :
          /\ i = Len(flog)
          /\ i > 1
          /\ flog[i - 1] = Request(FALSE, flog[i].attempt)
          /\ fcall.policy.allowInsecureTls
          /\ fetchLastError # None
          /\ IsIssuerError(Get(fetchLastError))
          /\ fpc \in { "fallback", "returned", "thrown" }
    /\ (fcall.policy.allowInsecureTls /\ netLast.kind = "error" /\ IsIssuerError(netLast.v)) =>
          InsecureRequests # {}

C8_Witness ==
    /\ fpc = "thrown"
    /\ fcall.policy.retries = 3
    /\ attempt = 2
    /\ flog = << Request(FALSE, 1), Waited(fcall.policy.retryDelayMs, 1),
                 Request(FALSE, 2), Request(TRUE, 2) >>
    /\ netLast.kind = "error"

(* C9: in a run, a request without certificate validation is only ever    *)
(* sent to the tariff page; every request of a later step is sent with    *)
(* validation, also after a fallback happened and also when it fails      *)
(* with the certificate-issuer error.                                     *)
C9_FallbackScoped ==
    /\ insecureSent \subseteq { JAMTKRAFT_URL }
    /\ \A i \in InsecureRequests :
          /\ fcall.url = JAMTKRAFT_URL
          /\ pc = "parseJamtkraft"

C9_Witness ==
    /\ pc = "fetchEaseeMonthlyUsageMe"
    /\ insecureSent = { JAMTKRAFT_URL }
    /\ fpc = "thrown"
    /\ netLast.kind = "error"
    /\ IsIssuerError(netLast.v)
    /\ Cardinality(OrdinaryRequests) = DefaultRetries
    /\ InsecureRequests = {}

(* C10: selectRates(R, k) returns a row of R whose from is the greatest   *)
(* from <= k, or the least from of R when no from is <= k, and leaves     *)
(* the list R in the order it was given.                                  *)
C10_SelectRates ==
    pc = "selectRates returned" =>
        LET rows == arg.rates
            result == Get(ret)
            froms == { rows[i].from : i \in 1..Len(rows) }
            eligible == { f \in froms : KeyOrd(f) <= KeyOrd(arg.monthKey) }
        IN /\ \E i \in 1..Len(rows) : rows[i] = result.match
           /\ IF eligible # {}
              THEN /\ result.match.from \in eligible
                   /\ \A f \in eligible : KeyOrd(f) <= KeyOrd(result.match.from)
              ELSE \A f \in froms : KeyOrd(result.match.from) <= KeyOrd(f)
           /\ result.rates = rows

C10_Witness ==
    /\ pc = "selectRates returned"
    /\ Len(arg.rates) = 3
    /\ KeyOrd(arg.rates[1].from) > KeyOrd(arg.rates[2].from)
    /\ KeyOrd(arg.rates[2].from) < KeyOrd(arg.rates[3].from)
    /\ arg.monthKey = << 2024, 12 >>
    /\ Get(ret).match.from = << 2024, 11 >>

----------------------------------------------------------------------------
(* C11: for every combination of known and unknown spot price, primary     *)
(* usage and secondary usage calculateMonth returns a result; its warnings *)
(* hold MissingJamtkraftPrice exactly when the spot price is unknown and   *)
(* each identity's usage warning exactly when that usage is unknown; an    *)
(* identity whose usage or the spot price is unknown gets the breakdown    *)
(* adjustedElPriceOre (null without spot price), 0, 0, 0; so no identity   *)
(* has a non-zero cost together with a warning that concerns it.           *)
C11_MissingDataZeroFilled ==
    CalcReturned =>
        /\ ret # None
        /\ Contains(Get(ret).warnings, "MissingJamtkraftPrice")
              <=> arg.spotOreInclVat = None
        /\ \A who \in { "me", "neighbor" } :
              /\ Contains(Get(ret).warnings, CalcUsageWarning(who))
                    <=> CalcUsage(who) = None
              /\ ~CalcKnown(who) =>
                    CalcBreakdown(who) =
                        [adjustedElPriceOre |->
                             IF arg.spotOreInclVat = None THEN None
                             ELSE Some(Get(arg.spotOreInclVat)
                                       - arg.rates.localDiscountOreInclVat),
                         elhandelKr |-> 0, elnatKr |-> 0, totalKr |-> 0]
              /\ (\/ Contains(Get(ret).warnings, "MissingJamtkraftPrice")
                  \/ Contains(Get(ret).warnings, CalcUsageWarning(who)))
                    => /\ CalcBreakdown(who).elhandelKr = 0
                       /\ CalcBreakdown(who).elnatKr = 0
                       /\ CalcBreakdown(who).totalKr = 0

\* the spot price is known, the primary usage is not, the secondary usage
\* is and costs something
C11_Witness ==
    /\ CalcReturned
    /\ arg.spotOreInclVat # None
    /\ arg.meKWh = None
    /\ arg.neighborKWh # None
    /\ Get(ret).warnings = << "MissingEaseeUsageMe" >>
    /\ Get(ret).result.me.totalKr = 0
    /\ Get(ret).result.me.adjustedElPriceOre # None
    /\ Get(ret).result.neighbor.totalKr > 0

----------------------------------------------------------------------------
(* C12: with the spot price and an identity's usage both known, that       *)
(* identity's breakdown is adjustedElPriceOre = spot - localDiscount,      *)
(* elhandelKr = usage * adjusted / 100 rounded half up to hundredths,      *)
(* elnatKr = usage * (gridTransfer + energyTax + norrlandDeduction) / 100  *)
(* rounded half up, totalKr = elhandelKr + elnatKr rounded half up, and    *)
(* no warning for that identity; rates 5/20/40/5, spot 100 and 10 kWh give *)
(* 95, 9.50, 6.50 and 16.00.                                                *)
C12_Formula ==
    CalcReturned =>
        \A who \in { "me", "neighbor" } :
            CalcKnown(who) =>
                LET usage == Get(CalcUsage(who))
                    adjusted == Get(arg.spotOreInclVat)
                                - arg.rates.localDiscountOreInclVat
                    b == CalcBreakdown(who)
                IN /\ b.adjustedElPriceOre = Some(adjusted)
                   /\ IsHalfUp(b.elhandelKr, usage * adjusted, 1000)
                   /\ IsHalfUp(b.elnatKr, usage * GridOre(arg.rates), 1000)
                   /\ IsHalfUp(b.totalKr, b.elhandelKr + b.elnatKr, 100)
                   /\ ~Contains(Get(ret).warnings, "MissingJamtkraftPrice")
                   /\ ~Contains(Get(ret).warnings, CalcUsageWarning(who))
                   /\ (/\ arg.rates = Rate(<< 2024, 1 >>, 5, 20, 40, 5)
                       /\ arg.spotOreInclVat = Some(100)
                       /\ usage = 100)
                         => b = [adjustedElPriceOre |-> Some(95), elhandelKr |-> 950,
                                 elnatKr |-> 650, totalKr |-> 1600]

\* the worked example, and a call in which an amount is rounded up
C12_Witness ==
    /\ CalcReturned
    /\ arg.rates = Rate(<< 2024, 1 >>, 5, 20, 40, 5)
    /\ arg.spotOreInclVat = Some(100)
    /\ arg.meKWh = Some(100)
    /\ arg.neighborKWh = Some(3)
    /\ Get(ret).warnings = << >>
    /\ Get(ret).result.me.totalKr = 1600
    /\ Get(ret).result.neighbor.elhandelKr = 29
    /\ Get(ret).result.neighbor.elnatKr = 20

----------------------------------------------------------------------------
(* C20: for known spot price, usage and rate components within the bounds, *)
(* totalKr, the sum of the separately rounded elhandelKr and elnatKr,      *)
(* differs by at most 0.01 kr from usage * (adjusted + gridTransfer +      *)
(* energyTax + norrlandDeduction) / 100 rounded half up directly.          *)
C20_RoundingDiff ==
    CalcReturned =>
        \A who \in { "me", "neighbor" } :
            CalcKnown(who) =>
                LET usage == Get(CalcUsage(who))
                    adjusted == Get(arg.spotOreInclVat)
                                - arg.rates.localDiscountOreInclVat
                    num == usage * (adjusted + GridOre(arg.rates))
                    direct == (2 * num + 10) \div 20
                IN /\ IsHalfUp(direct, num, 1000)
                   /\ AbsDiff(CalcBreakdown(who).totalKr, direct) <= 1

\* a call in which the two values differ by exactly 0.01 kr
C20_Witness ==
    /\ CalcReturned
    /\ CalcKnown("me")
    /\ LET usage == Get(arg.meKWh)
           adjusted == Get(arg.spotOreInclVat) - arg.rates.localDiscountOreInclVat
           num == usage * (adjusted + GridOre(arg.rates))
           direct == (2 * num + 10) \div 20
       IN AbsDiff(Get(ret).result.me.totalKr, direct) = 1

----------------------------------------------------------------------------
----------------------------------------------------------------------------
(* C18: a strategy puts a year row into its result only if at least one of *)
(* the row's month values parsed: no strategy returns a table holding a    *)
(* year without a month value, and a strategy whose matched table has year *)
(* rows but no parseable month value returns null, so that the chain goes  *)
(* on to the next strategy.                                                *)
C18_YearRowsHaveValues ==
    ExtractReturned =>
        \A i \in 1..Len(Get(ret).tried) :
            /\ StrategyResult(arg, i) # None =>
                  \A year \in DOMAIN Get(StrategyResult(arg, i)) :
                      DOMAIN Get(StrategyResult(arg, i))[year] # {}
            /\ (/\ StrategyView(arg, i) # None
                /\ \A j \in 1..Len(Get(StrategyView(arg, i))) :
                      Get(StrategyView(arg, i))[j].year # None
                          => YearWithoutValue(Get(StrategyView(arg, i))[j]))
                  => StrategyResult(arg, i) = None

----------------------------------------------------------------------------
(* C14: a second OK run on the ledger a first OK run wrote, with the same  *)
(* fetched tariff and usage data, the same rates and the same last closed  *)
(* month, writes a months array identical to the first run's.              *)
C14_Idempotent ==
    pc = "between runs" =>
        \A i \in 1..Len(ret), j \in 1..Len(ret) :
            (i < j /\ OkRunAt(i) /\ OkRunAt(j) /\ OnlyRunsBetween(i, j))
                => ret[j].after = ret[i].after

\* two OK runs in a row; the first one dropped, kept and recomputed records
C14_Witness ==
    /\ pc = "between runs"
    /\ Len(ret) = 3
    /\ ret[1].kind = "lock"
    /\ OkRunAt(2)
    /\ OkRunAt(3)
    /\ ret[2].after # ret[1].after
    /\ Len(ret[2].after) = 12
    /\ ret[2].after[1].isLocked
    /\ ret[2].after[1].inputs.spotOreInclVat = Some(77)
    /\ ret[2].after[12].result.me.totalKr > 0
    /\ ret[3].after = ret[2].after

----------------------------------------------------------------------------
(* C17: after every OK run the months array holds exactly one record for   *)
(* each month from 2024-01 through the month before the current one        *)
(* (December of the year before when the current month is January), in     *)
(* ascending order without gap or duplicate, the record at each position   *)
(* carrying that position's year and month; the current month is not in.   *)
C17_MonthsRange ==
    pc = "between runs" =>
        \A i \in 1..Len(ret) :
            OkRunAt(i) =>
                LET months == ret[i].after
                    now == ret[i].clock
                IN /\ Len(months) = KeyOrd(now) - KeyOrd(<< 2024, 1 >>)
                   /\ \A k \in 1..Len(months) :
                         /\ months[k].month \in 1..12
                         /\ KeyOrd(<< months[k].year, months[k].month >>)
                               = KeyOrd(<< 2024, 1 >>) + k - 1
                   /\ \A k \in 1..Len(months) :
                         << months[k].year, months[k].month >> # now

\* an OK run in January 2025: twelve records, January to December 2024
C17_Witness ==
    /\ pc = "between runs"
    /\ \E i \in 1..Len(ret) :
          /\ OkRunAt(i)
          /\ ret[i].clock = << 2025, 1 >>
          /\ Len(ret[i].after) = 12
          /\ ret[i].after[1].year = 2024 /\ ret[i].after[1].month = 1
          /\ ret[i].after[12].year = 2024 /\ ret[i].after[12].month = 12

----------------------------------------------------------------------------
(* C15: whenever the ids of the site-users listing do not include both     *)
(* configured identities, also when the listing holds no usable id at all, *)
(* the run fails with an error that names the missing ids and no monthly   *)
(* usage request is issued.                                                *)
C15_IdentityPreflight ==
    [][(SiteUsersListed /\ NotListed # {})
          => /\ pc' = "writeData"
             /\ lastRunStatus' = "FAIL"
             /\ caught' # None
             /\ \A id \in NotListed :
                   IsInfix(<< ". Missing: " >>, Get(caught').message)
                   /\ Contains(Get(caught').message, ToString(id))
             /\ \A i \in 1..Len(issued') :
                   issued'[i].step \notin { "fetchEaseeMonthlyUsageMe",
                                            "fetchEaseeMonthlyUsageNeighbor" }]_vars

----------------------------------------------------------------------------
----------------------------------------------------------------------------
(* C19: in an OK run the record written for an unlocked month depends on   *)
(* the fetched spot price, the fetched usages and the rates only: two      *)
(* prior ledgers that differ only in the inputs, result or warnings of     *)
(* unlocked months give the same months array, and a value that the prior  *)
(* record of an unlocked month held and the fetch does not have is gone:   *)
(* the month is zero-filled and carries the missing-data warning.          *)
C19_UnlockedRecomputed ==
    pc = "merge returned" =>
        /\ Get(ret).a = Get(ret).b
        /\ \A k \in 1..Len(Get(ret).a) :
              LET record == Get(ret).a[k]
                  monthKey == toMonthKey(record.year, record.month)
              IN ~record.isLocked =>
                    /\ record.inputs =
                          [spotOreInclVat |->
                               spotLookup(arg.jamtkraftData, record.year, record.month),
                           meKWh |-> usageLookup(arg.meUsage, monthKey),
                           neighborKWh |-> usageLookup(arg.neighborUsage, monthKey)]
                    /\ record.inputs.spotOreInclVat = None =>
                          /\ Contains(record.warnings, "MissingJamtkraftPrice")
                          /\ record.result.me.totalKr = 0
                          /\ record.result.neighbor.totalKr = 0
                    /\ record.inputs.meKWh = None =>
                          /\ Contains(record.warnings, "MissingEaseeUsageMe")
                          /\ record.result.me.totalKr = 0
                    /\ record.inputs.neighborKWh = None =>
                          /\ Contains(record.warnings, "MissingEaseeUsageNeighbor")
                          /\ record.result.neighbor.totalKr = 0

\* the two prior ledgers hold different usages and costs for the unlocked
\* 2024-02, nothing is fetched for that month: both results hold the same
\* zero-filled record for it
C19_Witness ==
    /\ pc = "merge returned"
    /\ Len(arg.a) = 2
    /\ arg.a[1] = arg.b[1]
    /\ arg.a[1].isLocked
    /\ arg.a[2].inputs.meKWh = Some(500)
    /\ arg.b[2].inputs.meKWh = Some(40)
    /\ arg.a[2].result.me.totalKr # arg.b[2].result.me.totalKr
    /\ Len(Get(ret).a) = 2
    /\ Get(ret).a = Get(ret).b
    /\ Get(ret).a[1] = arg.a[1]
    /\ Get(ret).a[2].inputs.meKWh = None
    /\ Get(ret).a[2].result.me.totalKr = 0
    /\ Contains(Get(ret).a[2].warnings, "MissingEaseeUsageMe")

----------------------------------------------------------------------------
(* C21: over any sequence of runs, month changes and locks by a person, a  *)
(* run never locks a month itself: every record it recomputes or creates   *)
(* has isLocked false, so every locked record of the ledger a run writes   *)
(* is a locked record of the ledger that run loaded.                       *)
C21_NeverSelfLocks ==
    (pc = "between runs" /\ JustRan) =>
        /\ LockedIn(disk.data.months) \subseteq LockedIn(loaded.months)
        /\ \A i \in 1..Len(disk.data.months) :
              disk.data.months[i] \notin LockedIn(loaded.months)
                  => disk.data.months[i].isLocked = FALSE
        /\ Last(ret).after = disk.data.months

\* a person locked 2024-01, then an OK run: it wrote that record still
\* locked and a complete 2024-12 (spot price and both usages known) unlocked
C21_Witness ==
    /\ pc = "between runs"
    /\ Len(ret) >= 2
    /\ ret[Len(ret) - 1].kind = "lock"
    /\ OkRunAt(Len(ret))
    /\ Len(disk.data.months) = 12
    /\ disk.data.months[1].isLocked
    /\ disk.data.months[1] \in LockedIn(loaded.months)
    /\ disk.data.months[12].warnings = << >>
    /\ ~disk.data.months[12].isLocked
    /\ disk.data.months # loaded.months

====
